---- MODULE Spec2Model ----
(***************************************************************************)
(* A model of sleek_csv: the record arena (raw.rs, byte_arena.rs) and the  *)
(* incremental Reader (reader.rs) that fills arenas chunk by chunk.        *)
(*                                                                         *)
(* Offsets are the code's 0-based offsets and lengths; Slice(s, i, j) is   *)
(* Rust's s[i..j].  Bytes are one-character strings; NUL is the byte 0     *)
(* that Vec::resize(_, 0) writes.                                          *)
(***************************************************************************)
EXTENDS Integers, Sequences, FiniteSets, TLC

\* ------------------------------------------------------------------ bounds

\* Bytes handed to fill_arena over one run of the pipeline.
MaxStream == 4

\* Bytes of the stream that is fed chunk by chunk with a migration after
\* every chunk.
MaxChunked == 6

\* Bytes of the input an arena was filled from before a run on arenas alone.
MaxPrefill == 3

\* Bytes handed to fill_arena over one run in which arenas are also cleared.
MaxLifecycle == 3

\* Completed records an arena may hold when complete_partial is called on it.
MaxCompleted == 1

\* dump_arena calls on one Writer, and the bytes of an input parsed for a dump.
MaxDumps == 2
MaxDumpInput == 3

\* Bytes of the stream of the pipeline of any caller.
MaxPublic == 2

\* Writing fields by hand: the bytes of the stream of the fills in between,
\* the largest argument of reserve_space, the bytes the caller writes into
\* the exposed slice, the largest field size short of the whole slice, and
\* the field ends and records an arena may hold after a field or a record
\* is terminated by hand, and the largest capacity that is exposed.
MaxManual == 1
MaxReserve == 1
MaxWrite == 1
MaxField == 1
MaxManualEnds == 2
MaxManualRecords == 1
MaxCapacity == 8
MaxCalls == 6

\* ------------------------------------------------------------------- bytes

NUL == "NUL"
DELIM == ","
QUOTE == "\""
LF == "\n"
CR == "\r"

\* The input alphabet: an ordinary byte, the delimiter, a terminator, the quote.
Bytes == {"a", DELIM, LF, QUOTE}

\* Option<T>: None is the empty sequence, Some(x) the sequence of x alone.
None == <<>>
Some(x) == <<x>>
Unwrap(o) == o[1]

\* ---------------------------------------------------------------- helpers

\* s[i..j] of Rust: the elements at 0-based offsets i .. j-1.
Slice(s, i, j) == SubSeq(s, i + 1, j)

\* s[i..] of Rust.
SliceFrom(s, i) == SubSeq(s, i + 1, Len(s))

\* Vec::truncate(n): no effect when n is not below the length.
Truncate(s, n) == IF n < Len(s) THEN SubSeq(s, 1, n) ELSE s

\* Vec::resize(n, fill).
Resize(s, n, fill) ==
    IF n <= Len(s) THEN SubSeq(s, 1, n)
    ELSE s \o [i \in 1..(n - Len(s)) |-> fill]

\* Writing the slice `data` into buf[pos..], as the tokenizer does into its
\* output slices.
WriteAt(buf, pos, data) ==
    [i \in 1..Len(buf) |->
        IF i > pos /\ i <= pos + Len(data) THEN data[i - pos] ELSE buf[i]]

\* slice.last().unwrap_or(&dflt)
LastOr(s, dflt) == IF Len(s) = 0 THEN dflt ELSE s[Len(s)]

\* The spare capacity of a Vec<u8>: the bytes of its allocation from its
\* length to its capacity.  A byte of it is NUL where it is known to be
\* zero and UNKNOWN where it was never written or holds what an earlier
\* call left there.
UNKNOWN == "?"
Unknown(n) == [i \in 1..n |-> UNKNOWN]
Zeroed(n) == [i \in 1..n |-> NUL]

\* The capacity after Vec::reserve for `required` bytes in all (RawVec's
\* amortized growth: at least twice the capacity, at least 8 bytes).
MIN_NON_ZERO_CAP == 8
grow_amortized(cap, required) ==
    IF required <= cap THEN cap
    ELSE IF 2 * cap >= required /\ 2 * cap >= MIN_NON_ZERO_CAP THEN 2 * cap
    ELSE IF required >= MIN_NON_ZERO_CAP THEN required
    ELSE MIN_NON_ZERO_CAP

\* The spare capacity of a Vec of length len and spare capacity spare after
\* a call that needed `required` bytes in all, wrote below that, and left
\* the length new_len.
respare(len, spare, required, new_len) ==
    SliceFrom(Unknown(IF required > len THEN required ELSE len)
                  \o SliceFrom(spare, IF required > len + Len(spare) THEN Len(spare)
                                      ELSE IF required > len THEN required - len
                                      ELSE 0)
                  \o Unknown(grow_amortized(len + Len(spare), required)
                                 - (IF required > len + Len(spare) THEN required
                                    ELSE len + Len(spare))),
              new_len)

\* All sequences over S of length lo..hi.
SeqsOf(S, lo, hi) == UNION {[1..n -> S] : n \in lo..hi}

\* --------------------------------------------------- tokenizer (csv_core)

\* The record terminator of csv_core's default (Terminator::CRLF): \r, \n
\* or \r\n.
IsTerm(c) == c = LF \/ c = CR

\* One step of the tokenizer's automaton: the state after reading byte c in
\* state s, and whether c is copied to the output.
Transition(s, c) ==
    LET To(st, o) == [state |-> st, out |-> o]
        RecordTerm == IF c = CR THEN To("CRLF", FALSE) ELSE To("EndRecord", FALSE)
        StartField ==
            IF c = QUOTE THEN To("InQuotedField", FALSE)
            ELSE IF c = DELIM THEN To("EndFieldDelim", FALSE)
            ELSE IF IsTerm(c) THEN RecordTerm
            ELSE To("InField", TRUE)
        StartRecord ==
            IF IsTerm(c) THEN To("StartRecord", FALSE) ELSE StartField
    IN  CASE s = "StartRecord" -> StartRecord
          [] s = "EndRecord" -> StartRecord
          [] s = "CRLF" -> IF c = LF THEN To("StartRecord", FALSE) ELSE StartRecord
          [] s = "EndFieldDelim" -> StartField
          [] s = "InField" ->
                IF c = DELIM THEN To("EndFieldDelim", FALSE)
                ELSE IF IsTerm(c) THEN RecordTerm
                ELSE To("InField", TRUE)
          [] s = "InQuotedField" ->
                IF c = QUOTE THEN To("InDoubleEscapedQuote", FALSE)
                ELSE To("InQuotedField", TRUE)
          [] s = "InDoubleEscapedQuote" ->
                IF c = QUOTE THEN To("InQuotedField", TRUE)
                ELSE IF c = DELIM THEN To("EndFieldDelim", FALSE)
                ELSE IF IsTerm(c) THEN RecordTerm
                ELSE To("InField", TRUE)

\* A state that ends a field, and one that ends a record.
IsFinalField(s) == s \in {"EndFieldDelim", "EndRecord", "CRLF"}
IsFinalRecord(s) == s \in {"EndRecord", "CRLF"}

\* csv_core::Reader::new(): the automaton at the start of a record, nothing
\* of the current record written yet, line 1.
NewCore == [state |-> "StartRecord", output_pos |-> 0, line |-> 1]

\* The tokenizer's loop over the input: it stops at the end of the input, when
\* the output slice (outCap bytes) or the ends slice (endsCap entries) is
\* full, or after the byte that ends a record.  A field end is the number of
\* bytes of the current record written so far, over all calls.
RECURSIVE CoreLoop(_, _, _, _, _, _, _, _)
CoreLoop(state, line, opos, input, nin, outCap, endsCap, acc) ==
    IF nin < Len(input) /\ Len(acc.out) < outCap /\ Len(acc.ends) < endsCap
    THEN LET c == input[nin + 1]
             t == Transition(state, c)
             out == IF t.out THEN Append(acc.out, c) ELSE acc.out
             ends == IF IsFinalField(t.state)
                     THEN Append(acc.ends, opos + Len(out)) ELSE acc.ends
             line2 == IF c = LF THEN line + 1 ELSE line
         IN  IF IsFinalRecord(t.state)
             THEN [state |-> t.state, line |-> line2, nin |-> nin + 1,
                   out |-> out, ends |-> ends]
             ELSE CoreLoop(t.state, line2, opos, input, nin + 1, outCap,
                           endsCap, [out |-> out, ends |-> ends])
    ELSE [state |-> state, line |-> line, nin |-> nin,
          out |-> acc.out, ends |-> acc.ends]

\* What csv_core::Reader::read_record returns: the result, the tokenizer
\* afterwards, the bytes consumed, the bytes and the field ends written.
CoreResult(r, c, nin, out, ends) ==
    [res |-> r, core |-> c, nin |-> nin, out |-> out, ends |-> ends]

\* The result after the tokenizer's loop stopped as l says.
CoreLoopResult(core, input, outCap, endsCap, l) ==
    LET inpdone == l.nin >= Len(input)
        r == IF IsFinalRecord(l.state) THEN "Record"
             ELSE IF ~inpdone /\ Len(l.out) >= outCap THEN "OutputFull"
             ELSE IF ~inpdone /\ Len(l.ends) >= endsCap THEN "OutputEndsFull"
             ELSE "InputEmpty"
        opos == IF r = "Record" THEN 0 ELSE core.output_pos + Len(l.out)
    IN  CoreResult(r, [state |-> l.state, output_pos |-> opos, line |-> l.line],
                   l.nin, l.out, l.ends)

\* csv_core::Reader::read_record(input, output, ends).  An empty input is
\* the end of the stream: a record in progress is ended (its last field end
\* written), and otherwise the result is End.
CoreReadRecord(core, input, outCap, endsCap) ==
    IF Len(input) = 0
    THEN IF IsFinalRecord(core.state) \/ core.state = "StartRecord"
         THEN CoreResult("End", [core EXCEPT !.state = "StartRecord"], 0, <<>>, <<>>)
         ELSE IF endsCap = 0
              THEN CoreResult("OutputEndsFull", core, 0, <<>>, <<>>)
              ELSE CoreResult("Record",
                              [core EXCEPT !.state = "EndRecord", !.output_pos = 0],
                              0, <<>>, <<core.output_pos>>)
    ELSE IF outCap = 0 THEN CoreResult("OutputFull", core, 0, <<>>, <<>>)
    ELSE IF endsCap = 0 THEN CoreResult("OutputEndsFull", core, 0, <<>>, <<>>)
    ELSE CoreLoopResult(core, input, outCap, endsCap,
                        CoreLoop(core.state, core.line, core.output_pos, input, 0,
                                 outCap, endsCap, [out |-> <<>>, ends |-> <<>>]))

\* ------------------------------------------------------ RawRecordArena

\* RawRecordArena::new()
raw_new == [field_data |-> <<>>, field_ends |-> <<>>, record_ends |-> <<>>]

\* *self.record_ends.last().unwrap_or(&(0, 0))
last_record_end(raw) == LastOr(raw.record_ends, <<0, 0>>)

\* RawRecordArena::is_partial
raw_is_partial(raw) ==
    \/ Len(raw.field_data) > last_record_end(raw)[1]
    \/ Len(raw.field_ends) > last_record_end(raw)[2]

\* RawRecordArena::clear
raw_clear(raw) == raw_new

\* A faulty migrate_partial that copies the partial record without truncating
\* self: the partial record's bytes would exist twice.
raw_migrate_partial_copying(self, other) ==
    LET e == last_record_end(self)
        partial_field_data == SliceFrom(self.field_data, e[1])
        partial_field_ends == SliceFrom(self.field_ends, e[2])
    IN  [self |-> self,
         other |-> [raw_new EXCEPT !.field_data = partial_field_data,
                                   !.field_ends = partial_field_ends],
         ret |-> <<Len(partial_field_data), Len(partial_field_ends)>>]

\* A faulty migrate_partial that does not clear other first: the partial
\* record is appended to what other holds.
raw_migrate_partial_appending(self, other) ==
    LET e == last_record_end(self)
        partial_field_data == SliceFrom(self.field_data, e[1])
        partial_field_ends == SliceFrom(self.field_ends, e[2])
    IN  [self |-> [self EXCEPT !.field_data = Truncate(@, e[1]),
                               !.field_ends = Truncate(@, e[2])],
         other |-> [other EXCEPT !.field_data = @ \o partial_field_data,
                                 !.field_ends = @ \o partial_field_ends],
         ret |-> <<Len(partial_field_data), Len(partial_field_ends)>>]

\* RawRecordArena::migrate_partial(&mut self, other): other is cleared and
\* receives the bytes and field ends after self's last record end; self is
\* truncated to that end.  ret is the returned pair.
raw_migrate_partial(self, other) ==
    LET cleared == raw_clear(other)
        e == last_record_end(self)
        partial_field_data == SliceFrom(self.field_data, e[1])
        partial_field_ends == SliceFrom(self.field_ends, e[2])
    IN  [self |-> [self EXCEPT !.field_data = Truncate(@, e[1]),
                               !.field_ends = Truncate(@, e[2])],
         other |-> [cleared EXCEPT
                       !.field_data = @ \o partial_field_data,
                       !.field_ends = @ \o partial_field_ends],
         ret |-> <<Len(partial_field_data), Len(partial_field_ends)>>]

\* A faulty flush that truncates the buffers to the partial record's lengths
\* without first copying the partial record to the front.
raw_flush_truncating(self) ==
    LET e == last_record_end(self)
        partial_field_data_len == Len(self.field_data) - e[1]
        partial_field_ends_len == Len(self.field_ends) - e[2]
    IN  [self |-> [field_data |-> Truncate(self.field_data, partial_field_data_len),
                   field_ends |-> Truncate(self.field_ends, partial_field_ends_len),
                   record_ends |-> <<>>],
         ret |-> <<partial_field_data_len, partial_field_ends_len>>]

\* A faulty flush that keeps the partial record's field ends and drops its
\* bytes.
raw_flush_dropping_data(self) ==
    [self |-> [field_data |-> <<>>,
               field_ends |-> SliceFrom(self.field_ends, last_record_end(self)[2]),
               record_ends |-> <<>>],
     ret |-> <<0, Len(self.field_ends) - last_record_end(self)[2]>>]

\* RawRecordArena::flush: with no completed record nothing changes; otherwise
\* the partial record is copied to the front (copy_within), the buffers are
\* truncated to it and record_ends is emptied.
raw_flush(self) ==
    IF Len(self.record_ends) = 0
    THEN [self |-> self, ret |-> <<Len(self.field_data), Len(self.field_ends)>>]
    ELSE LET e == last_record_end(self)
             data == WriteAt(self.field_data, 0, SliceFrom(self.field_data, e[1]))
             ends == WriteAt(self.field_ends, 0, SliceFrom(self.field_ends, e[2]))
             partial_field_data_len == Len(self.field_data) - e[1]
             partial_field_ends_len == Len(self.field_ends) - e[2]
         IN  [self |-> [field_data |-> Truncate(data, partial_field_data_len),
                        field_ends |-> Truncate(ends, partial_field_ends_len),
                        record_ends |-> <<>>],
              ret |-> <<partial_field_data_len, partial_field_ends_len>>]

\* The partial record's last field end (0 when it has none) and the number
\* of its bytes, as get_last_partial_field computes them.
partial_last_field_end(self) ==
    LastOr(SliceFrom(self.field_ends, last_record_end(self)[2]), 0)
partial_data_len(self) == Len(self.field_data) - last_record_end(self)[1]

\* The slice field_data[last_field_end..] of get_last_partial_field panics
\* when last_field_end is beyond the partial record's bytes.
get_last_partial_field_panics(self) ==
    partial_last_field_end(self) > partial_data_len(self)

\* RawRecordArena::get_last_partial_field: the bytes of the partial record
\* after its last field end, None when there are none.
raw_get_last_partial_field(self) ==
    IF partial_last_field_end(self) >= partial_data_len(self) THEN None
    ELSE Some(SliceFrom(SliceFrom(self.field_data, last_record_end(self)[1]),
                        partial_last_field_end(self)))

\* RawRecordArena::complete_partial: with a last partial field, a final field
\* end is pushed: the last element of the whole of field_ends (0 when it is
\* empty) plus the field's length; then the record end is pushed.
raw_complete_partial_to(self, last_partial_field) ==
    LET last_field_end == LastOr(self.field_ends, 0)
        field_ends == IF last_partial_field = None THEN self.field_ends
                      ELSE Append(self.field_ends,
                                  last_field_end + Len(Unwrap(last_partial_field)))
    IN  [self EXCEPT !.field_ends = field_ends,
                     !.record_ends = Append(@, <<Len(self.field_data), Len(field_ends)>>)]

\* When get_last_partial_field panics the arena is left as it is.
raw_complete_partial(self) ==
    IF get_last_partial_field_panics(self) THEN self
    ELSE raw_complete_partial_to(self, raw_get_last_partial_field(self))

\* RawRecordIter: the fields of a record given as (field_data, field_ends):
\* field i is field_data[prev_field_end..field_ends[i]].
record_fields(field_data, field_ends) ==
    [i \in 1..Len(field_ends) |->
        Slice(field_data, IF i = 1 THEN 0 ELSE field_ends[i - 1], field_ends[i])]

\* RawRecordsIter: the completed records, each as the sequence of its fields:
\* record i is the slices of field_data and field_ends between record_ends[i-1]
\* and record_ends[i].
raw_iter(raw) ==
    [i \in 1..Len(raw.record_ends) |->
        LET prev == IF i = 1 THEN <<0, 0>> ELSE raw.record_ends[i - 1]
            end == raw.record_ends[i]
        IN  record_fields(Slice(raw.field_data, prev[1], end[1]),
                          Slice(raw.field_ends, prev[2], end[2]))]

\* ----------------------------------------------------- ByteRecordArena

\* ByteRecordArena::new()
new_arena ==
    [inner |-> raw_new, start_pos |-> None, headers_inner |-> None,
     bytes_init |-> 0]

\* ByteRecordArena::with_headers(headers)
with_headers(hdr) ==
    [inner |-> raw_new, start_pos |-> None, headers_inner |-> Some(hdr),
     bytes_init |-> 0]

\* ByteRecordArena::record_count
record_count(arena) == Len(arena.inner.record_ends)

\* ByteRecordArena::is_partial
is_partial(arena) == raw_is_partial(arena.inner)

\* ByteRecordArena::headers
headers(arena) == arena.headers_inner

\* Headers::iter: the header's fields.
header_fields(h) == record_fields(h.name_data, h.name_ends)

\* ByteRecordArena::iter
iter(arena) == raw_iter(arena.inner)

\* A faulty migrate_partial that resets the start_pos of self instead of
\* other's.
migrate_partial_resetting_self(self, other) ==
    LET m == raw_migrate_partial(self.inner, other.inner)
    IN  [self |-> [self EXCEPT !.start_pos = None, !.inner = m.self],
         other |-> [other EXCEPT !.inner = m.other],
         ret |-> m.ret]

\* ByteRecordArena::migrate_partial(&mut self, other): other's start_pos is
\* reset, then the raw migration.
migrate_partial(self, other) ==
    LET m == raw_migrate_partial(self.inner, other.inner)
    IN  [self |-> [self EXCEPT !.inner = m.self],
         other |-> [other EXCEPT !.start_pos = None, !.inner = m.other],
         ret |-> m.ret]

\* ByteRecordArena::flush
flush(self) ==
    LET f == raw_flush(self.inner)
    IN  [self |-> [self EXCEPT !.start_pos = None, !.inner = f.self],
         ret |-> f.ret]

\* ByteRecordArena::clear
clear(self) == [self EXCEPT !.start_pos = None, !.inner = raw_clear(@)]

\* ByteRecordArena::complete_partial
complete_partial(self) == [self EXCEPT !.inner = raw_complete_partial(@)]

\* Whether complete_partial panics on the arena.
complete_partial_panics(self) == get_last_partial_field_panics(self.inner)

\* ------------------------------------------- writing fields by hand
\* The operations below work on an arena and the spare capacity of its
\* field_data, and give both back.

\* What truncated bytes leave in the spare capacity.
Stale(s) == [i \in 1..Len(s) |-> IF s[i] = NUL THEN NUL ELSE UNKNOWN]

\* ByteRecordArena::reserve_space(data): field_data is resized to `data`
\* bytes with zeros, bytes_init becomes its length, and it is truncated to
\* the length it had.
reserve_space(self, sp, data) ==
    IF data <= Len(self.inner.field_data)
    THEN [self |-> [self EXCEPT
                      !.inner.field_data = SubSeq(@, 1, data),
                      !.bytes_init = data],
          spare |-> Stale(SliceFrom(self.inner.field_data, data)) \o sp]
    ELSE [self |-> [self EXCEPT !.bytes_init = data],
          spare |-> Zeroed(data - Len(self.inner.field_data))
                    \o (IF data <= Len(self.inner.field_data) + Len(sp)
                        THEN SliceFrom(sp, data - Len(self.inner.field_data))
                        ELSE Unknown(grow_amortized(Len(self.inner.field_data) + Len(sp),
                                                    data) - data))]

\* ByteRecordArena::expose_data(): field_data is extended to its capacity,
\* with zeros when bytes_init is below the capacity and as the memory is
\* (set_len) otherwise; the slice returned is what was added.
expose_data(self, sp) ==
    IF self.bytes_init < Len(self.inner.field_data) + Len(sp)
    THEN [self |-> [self EXCEPT
                      !.inner.field_data = @ \o Zeroed(Len(sp)),
                      !.bytes_init = Len(self.inner.field_data) + Len(sp)],
          spare |-> <<>>,
          slice_len |-> Len(sp)]
    ELSE [self |-> [self EXCEPT !.inner.field_data = @ \o sp],
          spare |-> <<>>,
          slice_len |-> Len(sp)]

\* The data length terminate_field reconstructs: the end of the last record
\* plus the last field end of the partial record.
original_data_len(self) ==
    last_record_end(self.inner)[1] + partial_last_field_end(self.inner)

\* The slicing of field_ends in terminate_field is out of range.
field_ends_out_of_range(self) ==
    last_record_end(self.inner)[2] > Len(self.inner.field_ends)

\* The capacity assertion of terminate_field fails.
capacity_assertion_fails(self, field_size) ==
    original_data_len(self) + field_size > self.bytes_init

terminate_field_panics(self, field_size) ==
    \/ field_ends_out_of_range(self)
    \/ capacity_assertion_fails(self, field_size)

\* ByteRecordArena::terminate_field(field_size), when it does not panic:
\* field_data is truncated to the reconstructed length plus field_size and
\* the new field end is pushed.
terminate_field(self, sp, field_size) ==
    [self |-> [self EXCEPT
                  !.inner.field_data =
                      Truncate(@, original_data_len(self) + field_size),
                  !.inner.field_ends =
                      Append(@, partial_last_field_end(self.inner) + field_size)],
     spare |-> IF original_data_len(self) + field_size < Len(self.inner.field_data)
               THEN Stale(SliceFrom(self.inner.field_data,
                                    original_data_len(self) + field_size)) \o sp
               ELSE sp]

\* ByteRecordArena::terminate_record()
terminate_record(self) ==
    [self EXCEPT !.inner.record_ends =
        Append(@, <<Len(self.inner.field_data), Len(self.inner.field_ends)>>)]

\* ---------------------------------------------------------------- Reader

\* Reader::new(first_row_is_header, delim)
new_reader(first_row_is_header) ==
    [inner |-> NewCore, field_data_len |-> 0, field_ends_len |-> 0,
     skip_header |-> first_row_is_header, ensure_col_count |-> TRUE,
     bytes_read |-> 0, records_read |-> 0]

\* The state the loops of fill_arena work on: the Reader r, the raw arena a,
\* the arena's headers h, the unparsed input, the expected column count.

\* Reader::arena_overcommit: the buffer lengths are saved in the Reader, then
\* field_data grows by the input's size and field_ends by input_size / 8 + 1.
arena_overcommit(r, a, input_size) ==
    [r |-> [r EXCEPT !.field_data_len = Len(a.field_data),
                     !.field_ends_len = Len(a.field_ends)],
     a |-> [a EXCEPT
              !.field_data = Resize(@, Len(@) + input_size, NUL),
              !.field_ends = Resize(@, Len(@) + (input_size \div 8) + 1, 0)]]

\* Reader::arena_shrink_back
arena_shrink_back(r, a) ==
    [r |-> [r EXCEPT !.field_data_len = 0, !.field_ends_len = 0],
     a |-> [a EXCEPT !.field_data = Truncate(@, r.field_data_len),
                     !.field_ends = Truncate(@, r.field_ends_len)]]

\* Reader::arena_extend_field_data
arena_extend_field_data(a) ==
    [a EXCEPT !.field_data = Resize(@, Len(@) * 2, NUL)]

\* A faulty arena_extend_field_ends that doubles the buffer and loses the
\* field ends already in it.
arena_extend_field_ends_zeroing(a) ==
    [a EXCEPT !.field_ends = Resize(<<>>, Len(@) * 2, 0)]

\* Reader::arena_extend_field_ends
arena_extend_field_ends(a) ==
    [a EXCEPT !.field_ends = Resize(@, Len(@) * 2, 0)]

\* A faulty scrape_headers that reads the last record end without popping it:
\* the header row stays in the arena as a record.
scrape_headers_keeping_record(r, a) ==
    LET last_end == a.record_ends[Len(a.record_ends)]
    IN  [hdr |-> Some([name_data |-> Slice(a.field_data, 0, last_end[1]),
                       name_ends |-> Slice(a.field_ends, 0, last_end[2])]),
         r |-> r,
         a |-> a]

\* Reader::scrape_headers: the last record end is popped, the header is
\* field_data[..header_data_len] and field_ends[..header_ends_len], and the
\* Reader's lengths go back to the previous record end.
scrape_headers(r, a) ==
    LET popped == a.record_ends[Len(a.record_ends)]
        rest == SubSeq(a.record_ends, 1, Len(a.record_ends) - 1)
        prev == LastOr(rest, <<0, 0>>)
    IN  [hdr |-> Some([name_data |-> Slice(a.field_data, 0, popped[1]),
                       name_ends |-> Slice(a.field_ends, 0, popped[2])]),
         r |-> [r EXCEPT !.field_data_len = prev[1], !.field_ends_len = prev[2]],
         a |-> [a EXCEPT !.record_ends = rest]]

\* The loop of Reader::read_record after the tokenizer returned c: the
\* Reader's lengths grow by what was written.  A full buffer is doubled and
\* the loop goes on (again); a buffer of length 0 stays 0 when doubled, so
\* the loop never ends ("Hang").  On a record, its end is pushed to
\* record_ends.
read_record_match(r, a, input, c) ==
    LET r2 == [r EXCEPT !.inner = c.core,
                        !.field_data_len = @ + Len(c.out),
                        !.field_ends_len = @ + Len(c.ends)]
        a2 == [a EXCEPT !.field_data = WriteAt(@, r.field_data_len, c.out),
                        !.field_ends = WriteAt(@, r.field_ends_len, c.ends)]
        full == c.res \in {"OutputFull", "OutputEndsFull"}
        stuck == \/ c.res = "OutputFull" /\ Len(a.field_data) = 0
                 \/ c.res = "OutputEndsFull" /\ Len(a.field_ends) = 0
    IN  [again |-> full /\ ~stuck,
         res |-> CASE full -> "Hang"
                   [] c.res = "InputEmpty" -> "NeedsMoreInput"
                   [] c.res = "End" -> "NeedsMoreInputOrEof"
                   [] c.res = "Record" -> "Record",
         col_count |-> IF c.res = "Record"
                       THEN r2.field_ends_len - last_record_end(a)[2] ELSE 0,
         r |-> r2,
         a |-> CASE c.res = "OutputFull" -> arena_extend_field_data(a2)
                 [] c.res = "OutputEndsFull" -> arena_extend_field_ends(a2)
                 [] c.res = "Record" ->
                        [a2 EXCEPT !.record_ends =
                            Append(@, <<r2.field_data_len, r2.field_ends_len>>)]
                 [] OTHER -> a2,
         input |-> SliceFrom(input, c.nin)]

\* One turn of the loop of Reader::read_record: the tokenizer is called on the
\* unused tails of the buffers.
read_record_turn(r, a, input) ==
    read_record_match(r, a, input,
                      CoreReadRecord(r.inner, input,
                                     Len(a.field_data) - r.field_data_len,
                                     Len(a.field_ends) - r.field_ends_len))

\* Reader::read_record: the loop, until the tokenizer reports something else
\* than a full buffer.
RECURSIVE read_record(_, _, _)
read_record(r, a, input) ==
    LET t == read_record_turn(r, a, input)
    IN  IF t.again THEN read_record(t.r, t.a, t.input) ELSE t

\* What a call of fill_arena comes to: Ok(()), Err(WrongColCount {..}), or,
\* when it does not return, "Panic" (the assertion) or "Hang".
Outcome(kind) ==
    [kind |-> kind, row_num |-> 0, col_count |-> 0, expected_col_count |-> 0]
WrongColCount(row_num, col_count, expected_col_count) ==
    [kind |-> "WrongColCount", row_num |-> row_num, col_count |-> col_count,
     expected_col_count |-> expected_col_count]

\* A faulty error path that empties record_ends before it reports the error.
wrong_col_count_resetting(a, col_count, expected_col_count) ==
    [res |-> WrongColCount(Len(a.record_ends) - 1, col_count, expected_col_count),
     a |-> [a EXCEPT !.record_ends = <<>>]]

\* break Err(WrongColCount { .. }): the row number is the index of the record
\* just pushed to record_ends; the arena is left as it is.
wrong_col_count(a, col_count, expected_col_count) ==
    [res |-> WrongColCount(Len(a.record_ends) - 1, col_count, expected_col_count),
     a |-> a]

\* The loop of fill_arena after read_record returned rr.  Without a record
\* the loop breaks with Ok(()).  A record whose column count differs from the
\* expected one breaks the loop with WrongColCount; the first record sets the
\* expected count when there is none.  While the Reader has a header to
\* skip, the record just read is scraped into the arena's headers (which
\* must be empty: the assertion).
fill_arena_match(h, expected_col_count, rr) ==
    LET mismatch == /\ rr.res = "Record"
                    /\ rr.r.ensure_col_count
                    /\ expected_col_count # None
                    /\ rr.col_count # Unwrap(expected_col_count)
        scrape == rr.res = "Record" /\ ~mismatch /\ rr.r.skip_header
        r3 == IF scrape THEN [rr.r EXCEPT !.skip_header = FALSE] ELSE rr.r
        s == IF scrape /\ h = None THEN scrape_headers(r3, rr.a)
             ELSE [hdr |-> h, r |-> r3, a |-> rr.a]
        e == IF mismatch
             THEN wrong_col_count(rr.a, rr.col_count, Unwrap(expected_col_count))
             ELSE [res |-> Outcome(IF rr.res = "Hang" THEN "Hang"
                                   ELSE IF scrape /\ h # None THEN "Panic"
                                   ELSE "Ok"),
                   a |-> s.a]
    IN  [break |-> rr.res # "Record" \/ mismatch \/ (scrape /\ h # None),
         res |-> e.res,
         r |-> s.r,
         a |-> e.a,
         h |-> s.hdr,
         input |-> rr.input,
         expected_col_count |->
             IF rr.res = "Record" /\ rr.r.ensure_col_count /\ expected_col_count = None
             THEN Some(rr.col_count) ELSE expected_col_count]

\* One turn of the loop of fill_arena: a record is read.
fill_arena_turn(r, a, h, input, expected_col_count) ==
    fill_arena_match(h, expected_col_count, read_record(r, a, input))

\* The loop of fill_arena, until it breaks.
RECURSIVE fill_loop(_, _, _, _, _)
fill_loop(r, a, h, input, expected_col_count) ==
    LET t == fill_arena_turn(r, a, h, input, expected_col_count)
    IN  IF t.break THEN t
        ELSE fill_loop(t.r, t.a, t.h, t.input, t.expected_col_count)

\* A faulty stamp that takes the position of the start of the stream instead
\* of the Reader's counters.
stamp_start_of_stream(r) ==
    Some([line |-> 1, byte |-> 0, record |-> 0])

\* The position a fill_arena stamps on an arena without one: the Reader's
\* line and its byte and record counters before the call.
Stamp(r) ==
    Some([line |-> r.inner.line, byte |-> r.bytes_read, record |-> r.records_read])

\* A faulty end of fill_arena that adds the whole chunk to bytes_read, also
\* when the loop broke before the end of the chunk.
fill_arena_end_counting_chunk(reader, arena, input, l) ==
    LET s == arena_shrink_back(l.r, l.a)
    IN  [reader |-> [s.r EXCEPT
                       !.bytes_read = @ + Len(input),
                       !.records_read = @ + (Len(s.a.record_ends) - record_count(arena))],
         arena |-> [arena EXCEPT
                      !.start_pos = IF @ = None THEN Stamp(reader) ELSE @,
                      !.inner = s.a,
                      !.headers_inner = l.h],
         res |-> l.res]

\* The end of fill_arena after its loop broke as l says: the buffers shrink
\* back and the Reader's counters advance.  When the call does not return
\* (l.res is "Panic" or "Hang") the state is the one at that point.
fill_arena_end(reader, arena, input, l) ==
    LET input_total_bytes == Len(input)
        arena_orig_record_count == record_count(arena)
        s == arena_shrink_back(l.r, l.a)
        returns == l.res.kind \notin {"Panic", "Hang"}
        a == IF returns THEN s.a ELSE l.a
    IN  [reader |->
            IF returns
            THEN [s.r EXCEPT
                    !.bytes_read = @ + (input_total_bytes - Len(l.input)),
                    !.records_read = @ + (Len(a.record_ends) - arena_orig_record_count)]
            ELSE l.r,
         arena |-> [arena EXCEPT
                      !.start_pos = IF @ = None THEN Stamp(reader) ELSE @,
                      !.inner = a,
                      !.headers_inner = l.h],
         res |-> l.res]

\* The expected column count at the start of fill_arena:
\* arena_outer.headers().map(|h| h.len()).
header_col_count(arena) ==
    IF headers(arena) = None THEN None
    ELSE Some(Len(Unwrap(headers(arena)).name_ends))

\* The loop of fill_arena on the overcommitted arena o.
fill_arena_loop(arena, input, o) ==
    fill_loop(o.r, o.a, arena.headers_inner, input, header_col_count(arena))

\* A faulty fill_arena without the check for an empty input: the tokenizer
\* is called on it.
fill_arena_without_empty_check(reader, arena, input) ==
    fill_arena_end(reader, arena, input,
                   fill_arena_loop(arena, input,
                                   arena_overcommit(reader, arena.inner,
                                                    Len(input))))

\* Reader::fill_arena(input, arena): the Reader and the arena afterwards and
\* the Outcome.  An empty input changes nothing.
fill_arena(reader, arena, input) ==
    IF Len(input) = 0
    THEN [reader |-> reader, arena |-> arena, res |-> Outcome("Ok")]
    ELSE fill_arena_end(reader, arena, input,
                        fill_arena_loop(arena, input,
                                        arena_overcommit(reader, arena.inner,
                                                         Len(input))))

\* ------------------------------------------------ encoder (csv_core::Writer)

\* QuoteStyle::Necessary: a field is quoted when it holds the quote, the
\* delimiter or a record terminator.
should_quote(input) ==
    \E i \in 1..Len(input) : input[i] \in {QUOTE, DELIM, LF, CR}

\* csv_core::WriterBuilder::build(): not in a field, nothing of the current
\* record written.
NewWriterCore == [in_field |-> FALSE, quoting |-> FALSE, record_bytes |-> 0]

\* What an encoder call returns: the encoder afterwards, the bytes written,
\* and whether the result was OutputFull.
Written(w, out, full) == [w |-> w, out |-> out, full |-> full]

\* The encoder's write of a fixed byte string into `room` free bytes: all of
\* it or nothing.
CoreWrite(w, data, room) ==
    IF Len(data) > room THEN Written(w, <<>>, TRUE)
    ELSE Written([w EXCEPT !.record_bytes = @ + Len(data)], data, FALSE)

\* The bytes of an unquoted field: as many as fit.
WriteOptimistic(w, input, room) ==
    IF Len(input) > room
    THEN Written([w EXCEPT !.record_bytes = @ + room], SubSeq(input, 1, room), TRUE)
    ELSE Written([w EXCEPT !.record_bytes = @ + Len(input)], input, FALSE)

\* The bytes of a quoted field, every quote doubled: as many as fit.
RECURSIVE QuoteInto(_, _, _, _)
QuoteInto(w, input, room, acc) ==
    IF Len(input) = 0
    THEN Written([w EXCEPT !.record_bytes = @ + Len(acc)], acc, FALSE)
    ELSE IF (IF Head(input) = QUOTE THEN 2 ELSE 1) > room
    THEN Written([w EXCEPT !.record_bytes = @ + Len(acc)], acc, TRUE)
    ELSE QuoteInto(w, Tail(input), room - (IF Head(input) = QUOTE THEN 2 ELSE 1),
                   acc \o (IF Head(input) = QUOTE THEN <<QUOTE, QUOTE>>
                           ELSE <<Head(input)>>))

\* b after a: nothing more is written once a write was OutputFull and
\* returned.
Then(a, b) == Written(b.w, a.out \o b.out, b.full)

\* csv_core::Writer::field(input, output): at the start of a field the
\* quoting is decided and the opening quote written, then the bytes.
CoreFieldOpened(input, room, open) ==
    IF open.full THEN open
    ELSE Then(open,
              IF open.w.quoting
              THEN QuoteInto(open.w, input, room - Len(open.out), <<>>)
              ELSE WriteOptimistic(open.w, input, room - Len(open.out)))

CoreField(w, input, room) ==
    IF w.in_field THEN CoreFieldOpened(input, room, Written(w, <<>>, FALSE))
    ELSE IF should_quote(input)
    THEN CoreFieldOpened(input, room,
                         CoreWrite([w EXCEPT !.quoting = TRUE, !.in_field = TRUE],
                                   <<QUOTE>>, room))
    ELSE CoreFieldOpened(input, room,
                         Written([w EXCEPT !.quoting = FALSE, !.in_field = TRUE],
                                 <<>>, FALSE))

\* The end of a field in delimiter() and terminator(): the closing quote of a
\* quoted field, then the separator.
CoreSeparatorClosed(sep, room, closed) ==
    IF closed.full THEN closed
    ELSE Then(closed, CoreWrite(closed.w, <<sep>>, room - Len(closed.out)))

CoreSeparator(w, sep, room) ==
    IF w.in_field /\ w.quoting
    THEN CoreSeparatorClosed(sep, room,
                             CoreWrite([w EXCEPT !.in_field = FALSE], <<QUOTE>>, room))
    ELSE CoreSeparatorClosed(sep, room,
                             Written([w EXCEPT !.in_field = FALSE], <<>>, FALSE))

\* csv_core::Writer::delimiter(output)
CoreDelimiter(w, room) == CoreSeparator(w, DELIM, room)

\* csv_core::Writer::terminator(output): a record of which nothing was
\* written (one empty field) is written as two quotes; the terminator is \n;
\* afterwards nothing of the next record is written.
CoreTerminatorStarted(room, started) ==
    IF started.full THEN started
    ELSE Then(started, CoreSeparator(started.w, LF, room - Len(started.out)))

CoreTerminatorEnded(t) ==
    IF t.full THEN t ELSE Written([t.w EXCEPT !.record_bytes = 0], t.out, FALSE)

CoreTerminator(w, room) ==
    CoreTerminatorEnded(
        CoreTerminatorStarted(room,
            IF w.record_bytes = 0 THEN CoreWrite(w, <<QUOTE, QUOTE>>, room)
            ELSE Written(w, <<>>, FALSE)))

\* ------------------------------------------------------------------ Writer

\* Writer::new(skip_header, delim)
new_writer(skip_header) ==
    [inner |-> NewWriterCore, skip_header |-> skip_header,
     bytes_written |-> 0, records_written |-> 0]

\* Writer::write_record(record, writer, out_buffer): every field through the
\* encoder, a delimiter after all but the last, a terminator after the last.
\* `room` is the length of the slice the record is written into, `out` what
\* has been written of it, `full` whether a call did not return InputEmpty
\* (the debug_assert_eq! of a debug build; a release build goes on).  A
\* record without fields writes nothing.
\* acc and then b, on the encoder acc left.
Also(acc, b) == Written(b.w, acc.out \o b.out, acc.full \/ b.full)

RECURSIVE write_fields(_, _, _, _)
write_field_end(record, i, room, acc) ==
    write_fields(record, i + 1, room,
                 Also(acc, IF i < Len(record)
                           THEN CoreDelimiter(acc.w, room - Len(acc.out))
                           ELSE CoreTerminator(acc.w, room - Len(acc.out))))

write_fields(record, i, room, acc) ==
    IF i > Len(record) THEN acc
    ELSE write_field_end(record, i, room,
                         Also(acc, CoreField(acc.w, record[i], room - Len(acc.out))))

write_record(record, writer, room) ==
    write_fields(record, 1, room, Written(writer, <<>>, FALSE))

\* The length dump_arena gives the output buffer before it writes.
max_output_len(arena) ==
    2 + 2 * Len(arena.inner.field_data) + Len(arena.inner.field_ends)
      + Len(arena.inner.record_ends)

\* The header row of dump_arena: written when the arena has headers and
\* skip_header is not set.
dump_header(self, arena, room) ==
    IF arena.headers_inner # None /\ ~self.skip_header
    THEN write_record(header_fields(Unwrap(arena.headers_inner)), self.inner, room)
    ELSE Written(self.inner, <<>>, FALSE)

\* The loop of dump_arena over the completed records.
RECURSIVE dump_records(_, _, _, _)
dump_records(records, i, room, acc) ==
    IF i > Len(records) THEN acc
    ELSE dump_records(records, i + 1, room,
                      Also(acc, write_record(records[i], acc.w, room - Len(acc.out))))

\* The end of dump_arena: bytes_written grows by the length of the buffer
\* before it is truncated to what was written.
dump_arena_end(self, arena, d) ==
    [self |-> [inner |-> d.w,
               skip_header |-> self.skip_header \/ arena.headers_inner # None,
               bytes_written |-> self.bytes_written + max_output_len(arena),
               records_written |-> self.records_written + record_count(arena)],
     out_buffer |-> d.out,
     full |-> d.full]

\* Writer::dump_arena(&mut self, out_buffer, arena)
dump_arena(self, arena) ==
    dump_arena_end(self, arena,
                   dump_records(iter(arena), 1, max_output_len(arena),
                                dump_header(self, arena, max_output_len(arena))))

\* write_record computes the index of the last field as field_count() - 1:
\* for a record without fields the subtraction underflows.  A build with
\* overflow checks panics there; a build without them wraps, and the loop
\* over the fields of the record runs zero times.
field_count_underflows(record) == Len(record) = 0

\* The index of the first record whose field count underflows, 0 if none.
first_underflow(records) ==
    IF \E i \in 1..Len(records) : field_count_underflows(records[i])
    THEN CHOOSE i \in 1..Len(records) :
            /\ field_count_underflows(records[i])
            /\ \A j \in 1..(i - 1) : ~field_count_underflows(records[j])
    ELSE 0

\* dump_arena of a build with overflow checks, up to the panic at a record
\* without fields: the buffer has its full length, d is what was written.
dump_arena_panic(self, arena, d) ==
    [self |-> [self EXCEPT
                 !.inner = d.w,
                 !.skip_header = @ \/ arena.headers_inner # None],
     out_buffer |-> d.out \o Unknown(max_output_len(arena) - Len(d.out))]

dump_arena_overflow(self, arena) ==
    dump_arena_panic(self, arena,
                     dump_records(SubSeq(iter(arena), 1,
                                         first_underflow(iter(arena)) - 1),
                                  1, max_output_len(arena),
                                  dump_header(self, arena, max_output_len(arena))))

\* ----------------------------------------------------------------- state

VARIABLES
    reader,   \* the one Reader of the run
    arena,    \* the two ByteRecordArenas the caller rotates
    res,      \* the Outcome of the latest fill_arena call
    last,     \* the latest call: its name, its arenas, the pair it returned
    first_row_is_header,  \* the argument the Reader was created with
    cur,      \* pipeline: the arena being filled
    stream,   \* pipeline: all bytes handed to fill_arena so far
    got,      \* pipeline: the completed records the consumer took out of the
              \* arenas before rotating them, in order
    before,   \* arenas on their own: the arenas before the latest call
    writer,   \* the one Writer of the run
    out_buffer,  \* the Vec<u8> the caller hands to dump_arena
    spare,    \* the spare capacity of each arena's field_data
    manual,   \* writing fields by hand: the calls made by hand so far
    dumped    \* what the dump_arena calls so far did: their number, the
              \* bytes they left in out_buffer in total, the records of the
              \* arenas they were given, whether one of those had headers,
              \* whether the latest was to write the header row, whether
              \* the encoder met a full buffer in the latest, and the
              \* skip_header the Writer was created with

vars == <<reader, arena, res, last, first_row_is_header, cur, stream, got, before,
         writer, out_buffer, dumped, spare, manual>>
session == <<writer, out_buffer, dumped>>
pipeline == <<cur, stream, got>>

Arenas == {1, 2}
Other(i) == 3 - i

Call(op, self, other, ret) ==
    [op |-> op, self |-> self, other |-> other, ret |-> ret]

\* A call that did not return ends the run.
Running == res.kind \in {"Ok", "WrongColCount"}

\* The spare capacity of field_data after fill_arena: arena_overcommit
\* resizes it to its length plus the input's, and the call ends with it
\* truncated to the data; an empty input returns before that.
fill_spare(a, sp, input, after) ==
    IF Len(input) = 0 THEN sp
    ELSE respare(Len(a.inner.field_data), sp,
                 IF Len(after.inner.field_data) > Len(a.inner.field_data) + Len(input)
                 THEN Len(after.inner.field_data)
                 ELSE Len(a.inner.field_data) + Len(input),
                 Len(after.inner.field_data))

\* After a call that truncates field_data (flush, clear, the source of
\* migrate_partial): the capacity stays.
shrink_spare(a, sp, after) ==
    respare(Len(a.inner.field_data), sp, 0, Len(after.inner.field_data))

\* For the destination of migrate_partial: cleared, then extended by the
\* partial record's bytes.
extend_spare(a, sp, after) ==
    respare(Len(a.inner.field_data), sp, Len(after.inner.field_data),
            Len(after.inner.field_data))

\* A new arena has no allocation.
NoSpare == [i \in Arenas |-> <<>>]

\* reader.fill_arena(input, &mut arena[i])
DoFill(i, input) ==
    LET f == fill_arena(reader, arena[i], input)
    IN  /\ reader' = f.reader
        /\ arena' = [arena EXCEPT ![i] = f.arena]
        /\ res' = f.res
        /\ last' = Call("fill_arena", i, 0, <<0, 0>>)
        /\ spare' = [spare EXCEPT ![i] = fill_spare(arena[i], @, input, f.arena)]
        /\ UNCHANGED <<first_row_is_header, session, manual>>

\* arena[i].flush()
DoFlush(i) ==
    LET f == flush(arena[i])
    IN  /\ arena' = [arena EXCEPT ![i] = f.self]
        /\ last' = Call("flush", i, 0, f.ret)
        /\ spare' = [spare EXCEPT ![i] = shrink_spare(arena[i], @, f.self)]
        /\ UNCHANGED <<reader, res, first_row_is_header, session, manual>>

\* arena[i].migrate_partial(&mut arena[j])
DoMigrate(i, j) ==
    LET m == migrate_partial(arena[i], arena[j])
    IN  /\ arena' = [arena EXCEPT ![i] = m.self, ![j] = m.other]
        /\ last' = Call("migrate_partial", i, j, m.ret)
        /\ spare' = [spare EXCEPT ![i] = shrink_spare(arena[i], @, m.self),
                                  ![j] = extend_spare(arena[j], @, m.other)]
        /\ UNCHANGED <<reader, res, first_row_is_header, session, manual>>

\* arena[i].clear()
DoClear(i) ==
    /\ arena' = [arena EXCEPT ![i] = clear(@)]
    /\ last' = Call("clear", i, 0, <<0, 0>>)
    /\ spare' = [spare EXCEPT ![i] = shrink_spare(arena[i], @, clear(arena[i]))]
    /\ UNCHANGED <<reader, res, first_row_is_header, session, manual>>

\* arena[i].complete_partial(); a panic ends the run.
DoComplete(i) ==
    /\ arena' = [arena EXCEPT ![i] = complete_partial(@)]
    /\ res' = IF complete_partial_panics(arena[i]) THEN Outcome("Panic") ELSE res
    /\ last' = Call("complete_partial", i, 0, <<0, 0>>)
    /\ UNCHANGED spare
    /\ UNCHANGED <<reader, first_row_is_header, session, manual>>

\* Writer::new(skip_header, b','), and no call of it yet.
NoDumps(skip_header) ==
    [calls |-> 0, bytes |-> 0, records |-> 0, seen_headers |-> FALSE,
     header_due |-> FALSE, full |-> FALSE, skip_header |-> skip_header]

NewSession(skip_header) ==
    /\ writer = new_writer(skip_header)
    /\ out_buffer = <<>>
    /\ dumped = NoDumps(skip_header)

\* writer.dump_arena(&mut out_buffer, &arena[i]), d what it does.
DoDumpTo(i, d) ==
    /\ writer' = d.self
    /\ out_buffer' = d.out_buffer
    /\ dumped' = [dumped EXCEPT
                    !.calls = @ + 1,
                    !.bytes = @ + Len(d.out_buffer),
                    !.records = @ + Len(iter(arena[i])),
                    !.seen_headers = @ \/ headers(arena[i]) # None,
                    !.header_due = /\ ~dumped.skip_header
                                   /\ ~dumped.seen_headers
                                   /\ headers(arena[i]) # None,
                    !.full = d.full]
    /\ last' = Call("dump_arena", i, 0, <<0, 0>>)
    /\ UNCHANGED <<spare, manual>>
    /\ UNCHANGED <<reader, arena, res, first_row_is_header>>

DoDump(i) == DoDumpTo(i, dump_arena(writer, arena[i]))

\* ------------------------------------------------- the streaming pipeline
\* One Reader is fed a stream chunk by chunk.  Between chunks the caller
\* takes the completed records out of the current arena and either keeps
\* filling it, flushes it, or migrates its partial record to the other arena
\* and goes on there.  The run ends at the first fill_arena that does not
\* return Ok(()).  The Reader is created in header mode with empty arenas,
\* or without header mode with arenas that are empty or hold headers known
\* from an earlier parse.

\* Headers a caller holds from an earlier parse: one column named "a".
KnownHeaders == [name_data |-> <<"a">>, name_ends |-> <<1>>]

InitStream ==
    /\ first_row_is_header \in BOOLEAN
    /\ reader = new_reader(first_row_is_header)
    /\ \E a \in {new_arena} \cup
                (IF first_row_is_header THEN {} ELSE {with_headers(KnownHeaders)}) :
          arena = [i \in Arenas |-> a]
    /\ res = Outcome("Ok")
    /\ last = Call("new", 0, 0, <<0, 0>>)
    /\ cur = 1
    /\ stream = <<>>
    /\ got = <<>>
    /\ before = arena
    /\ NewSession(FALSE)
    /\ spare = NoSpare
    /\ manual = 0

\* The next chunk: any bytes that keep the stream within max.
FeedChunk(max) ==
    /\ res.kind = "Ok"
    /\ \E input \in SeqsOf(Bytes, 0, max - Len(stream)) :
          /\ DoFill(cur, input)
          /\ stream' = stream \o input
    /\ UNCHANGED <<cur, got, before>>

Feed == FeedChunk(MaxStream)

FlushCur ==
    /\ DoFlush(cur)
    /\ got' = got \o iter(arena[cur])
    /\ UNCHANGED <<cur, stream, before>>

MigrateCur ==
    /\ DoMigrate(cur, Other(cur))
    /\ got' = got \o iter(arena[cur])
    /\ cur' = Other(cur)
    /\ UNCHANGED <<stream, before>>

NextStream == Feed \/ FlushCur \/ MigrateCur

SpecStream == InitStream /\ [][NextStream]_vars

\* The pipeline of a caller that does not look at the records and may also
\* clear the current arena.
FlushArena ==
    /\ DoFlush(cur)
    /\ UNCHANGED <<pipeline, before>>

MigrateArena ==
    /\ DoMigrate(cur, Other(cur))
    /\ cur' = Other(cur)
    /\ UNCHANGED <<stream, got, before>>

ClearArena ==
    /\ DoClear(cur)
    /\ UNCHANGED <<pipeline, before>>

FeedArena == FeedChunk(MaxLifecycle)

NextLifecycle == FeedArena \/ FlushArena \/ MigrateArena \/ ClearArena

SpecLifecycle == InitStream /\ [][NextLifecycle]_vars

\* The pipeline of the migration tests: every chunk goes to a fresh arena,
\* with migrate_partial between each pair of chunks.
InitChunks ==
    /\ InitStream
    /\ arena[1] = new_arena

FeedNext ==
    /\ last.op # "fill_arena"
    /\ FeedChunk(MaxChunked)

MigrateNext ==
    /\ last.op = "fill_arena"
    /\ res.kind = "Ok"
    /\ Len(stream) < MaxChunked
    /\ MigrateCur

NextChunks == FeedNext \/ MigrateNext

SpecChunks == InitChunks /\ [][NextChunks]_vars

\* The pipeline of any caller: the Reader is created in either header mode,
\* each arena is empty or holds headers known from an earlier parse, and the
\* caller may also complete the partial record of the current arena.  A
\* call that panics ends the run.
InitPublic ==
    /\ first_row_is_header \in BOOLEAN
    /\ reader = new_reader(first_row_is_header)
    /\ arena \in [Arenas -> {new_arena, with_headers(KnownHeaders)}]
    /\ res = Outcome("Ok")
    /\ last = Call("new", 0, 0, <<0, 0>>)
    /\ cur = 1
    /\ stream = <<>>
    /\ got = <<>>
    /\ before = arena
    /\ NewSession(FALSE)
    /\ spare = NoSpare
    /\ manual = 0

FeedPublic == FeedChunk(MaxPublic)

FlushPublic == Running /\ FlushArena

MigratePublic == Running /\ MigrateArena

ClearPublic == Running /\ ClearArena

CompletePublic ==
    /\ Running
    /\ record_count(arena[cur]) <= MaxCompleted
    /\ DoComplete(cur)
    /\ UNCHANGED <<pipeline, before>>

NextPublic ==
    FeedPublic \/ FlushPublic \/ MigratePublic \/ ClearPublic \/ CompletePublic

SpecPublic == InitPublic /\ [][NextPublic]_vars

\* The streaming pipeline of a caller that goes on after an error: a
\* fill_arena that returned WrongColCount is followed by further calls.
FeedOn ==
    /\ Running
    /\ \E input \in SeqsOf(Bytes, 0, MaxStream - Len(stream)) :
          /\ DoFill(cur, input)
          /\ stream' = stream \o input
    /\ UNCHANGED <<cur, got, before>>

FlushOn == Running /\ FlushCur

MigrateOn == Running /\ MigrateCur

NextProtocol == FeedOn \/ FlushOn \/ MigrateOn

SpecProtocol == InitStream /\ [][NextProtocol]_vars

\* ------------------------------------------------ writing fields by hand
\* A caller fills the first arena by hand: it reserves space, exposes the
\* spare capacity as a slice, writes bytes at the start of the slice, and
\* terminates fields and records, with fills of the Reader, flush and clear
\* in between.  A call that panics ends the run.

\* arena[i].reserve_space(data)
DoReserveTo(i, data, r) ==
    /\ arena' = [arena EXCEPT ![i] = r.self]
    /\ spare' = [spare EXCEPT ![i] = r.spare]
    /\ manual' = manual + 1
    /\ last' = Call("reserve_space", i, 0, <<data, 0>>)
    /\ UNCHANGED <<reader, res, first_row_is_header, session>>

DoReserve(i, data) == DoReserveTo(i, data, reserve_space(arena[i], spare[i], data))

\* let slice = arena[i].expose_data(); slice[..w].fill(b'a').  The call
\* is recorded with the length of the slice.
DoExposeTo(i, w, e) ==
    /\ w <= e.slice_len
    /\ arena' = [arena EXCEPT ![i] =
                    [e.self EXCEPT !.inner.field_data =
                        WriteAt(@, Len(@) - e.slice_len, [k \in 1..w |-> "a"])]]
    /\ spare' = [spare EXCEPT ![i] = e.spare]
    /\ manual' = manual + 1
    /\ last' = Call("expose_data", i, 0, <<e.slice_len, w>>)
    /\ UNCHANGED <<reader, res, first_row_is_header, session>>

DoExpose(i, w) == DoExposeTo(i, w, expose_data(arena[i], spare[i]))

\* arena[i].terminate_field(field_size).  The call is recorded with
\* field_size and with whether it directly follows an expose_data of the
\* same arena whose slice had at least field_size bytes.
FollowsExpose(i, field_size) ==
    /\ last.op = "expose_data"
    /\ last.self = i
    /\ field_size <= last.ret[1]

DoTerminateFieldTo(i, field_size, t) ==
    /\ arena' = [arena EXCEPT ![i] =
                    IF terminate_field_panics(@, field_size) THEN @ ELSE t.self]
    /\ spare' = [spare EXCEPT ![i] =
                    IF terminate_field_panics(arena[i], field_size) THEN @ ELSE t.spare]
    /\ res' = IF field_ends_out_of_range(arena[i]) THEN Outcome("Panic")
              ELSE IF capacity_assertion_fails(arena[i], field_size)
              THEN Outcome("AssertionFailed")
              ELSE res
    /\ manual' = manual + 1
    /\ last' = Call("terminate_field", i, 0,
                    <<field_size, IF FollowsExpose(i, field_size) THEN 1 ELSE 0>>)
    /\ UNCHANGED <<reader, first_row_is_header, session>>

DoTerminateField(i, field_size) ==
    DoTerminateFieldTo(i, field_size, terminate_field(arena[i], spare[i], field_size))

\* arena[i].terminate_record()
DoTerminateRecord(i) ==
    /\ arena' = [arena EXCEPT ![i] = terminate_record(@)]
    /\ manual' = manual + 1
    /\ last' = Call("terminate_record", i, 0, <<0, 0>>)
    /\ UNCHANGED <<reader, res, first_row_is_header, session, spare>>

InitManual ==
    /\ InitStream
    /\ first_row_is_header = FALSE
    /\ arena = [i \in Arenas |-> new_arena]

ReserveManual ==
    /\ Running
    /\ manual < MaxCalls
    /\ \E data \in 0..MaxReserve : DoReserve(cur, data)
    /\ UNCHANGED <<pipeline, before>>

ExposeManual ==
    /\ Running
    /\ manual < MaxCalls
    /\ Len(arena[cur].inner.field_data) + Len(spare[cur]) <= MaxCapacity
    /\ \E w \in 0..MaxWrite : DoExpose(cur, w)
    /\ UNCHANGED <<pipeline, before>>

\* The field sizes a caller passes: small ones, and the whole slice that
\* expose_data has just returned.
FieldSizes ==
    (0..MaxField) \cup (IF last.op = "expose_data" THEN {last.ret[1]} ELSE {})

TerminateFieldManual ==
    /\ Running
    /\ manual < MaxCalls
    /\ Len(arena[cur].inner.field_ends) < MaxManualEnds
    /\ \E field_size \in FieldSizes : DoTerminateField(cur, field_size)
    /\ UNCHANGED <<pipeline, before>>

\* The field sizes of a caller that terminates a field only directly after
\* expose_data, with at most the length of the slice it returned.
SliceSizes == {k \in FieldSizes : FollowsExpose(cur, k)}

TerminateFieldExposed ==
    /\ Running
    /\ manual < MaxCalls
    /\ Len(arena[cur].inner.field_ends) < MaxManualEnds
    /\ \E field_size \in SliceSizes : DoTerminateField(cur, field_size)
    /\ UNCHANGED <<pipeline, before>>

TerminateRecordManual ==
    /\ Running
    /\ manual < MaxCalls
    /\ record_count(arena[cur]) < MaxManualRecords
    /\ DoTerminateRecord(cur)
    /\ UNCHANGED <<pipeline, before>>

FeedManual ==
    /\ Running
    /\ FeedChunk(MaxManual)

FlushManual == Running /\ FlushArena

ClearManual == Running /\ ClearArena

NextManual ==
    \/ ReserveManual \/ ExposeManual \/ TerminateFieldManual
    \/ TerminateRecordManual \/ FeedManual \/ FlushManual \/ ClearManual

SpecManual == InitManual /\ [][NextManual]_vars

\* The caller that terminates fields only directly after expose_data.
NextExposed ==
    \/ ReserveManual \/ ExposeManual \/ TerminateFieldExposed
    \/ TerminateRecordManual \/ FeedManual \/ FlushManual \/ ClearManual

SpecExposed == InitManual /\ [][NextExposed]_vars

\* ------------------------------------------------- records without fields
\* A caller completes records by hand (terminate_record, complete_partial)
\* between fills and dumps the arena.

\* writer.dump_arena(&mut out_buffer, &arena[i]) of a build with overflow
\* checks, when the arena holds a record without fields.
DoDumpOverflowTo(i, d) ==
    /\ writer' = d.self
    /\ out_buffer' = d.out_buffer
    /\ res' = Outcome("Overflow")
    /\ last' = Call("dump_arena", i, 0, <<0, 0>>)
    /\ UNCHANGED <<reader, arena, first_row_is_header, dumped, spare, manual>>

DoDumpOverflow(i) ==
    /\ first_underflow(iter(arena[i])) # 0
    /\ DoDumpOverflowTo(i, dump_arena_overflow(writer, arena[i]))

DumpRecords ==
    /\ Running
    /\ dumped.calls < MaxDumps
    /\ (DoDump(cur) \/ DoDumpOverflow(cur))
    /\ UNCHANGED <<pipeline, before>>

NextRecords ==
    \/ FeedManual \/ FlushManual \/ CompletePublic \/ TerminateRecordManual
    \/ DumpRecords

SpecRecords == InitManual /\ [][NextRecords]_vars

\* ------------------------------------------------------ arenas on their own
\* Two arenas, each as a parse of some input left it (a Reader in either
\* header mode filled it once), under every order of flush, migrate_partial
\* and clear.  The inputs are unquoted: the arena operations do not look at
\* the bytes.

PlainBytes == {"a", DELIM, LF}

Prefilled ==
    {fill_arena(new_reader(h), new_arena, input).arena :
        h \in BOOLEAN, input \in SeqsOf(PlainBytes, 0, MaxPrefill)}

\* The spare capacity of a Prefilled arena: none when its input was empty
\* (no start_pos was stamped), and else what fill_spare leaves of the first
\* allocation, for an input of at most MIN_NON_ZERO_CAP bytes.
prefilled_spare(a) ==
    IF a.start_pos = None THEN <<>>
    ELSE Unknown(MIN_NON_ZERO_CAP - Len(a.inner.field_data))

Init ==
    /\ first_row_is_header = FALSE
    /\ reader = new_reader(first_row_is_header)
    /\ arena \in [Arenas -> Prefilled]
    /\ res = Outcome("Ok")
    /\ last = Call("new", 0, 0, <<0, 0>>)
    /\ cur = 1
    /\ stream = <<>>
    /\ got = <<>>
    /\ before = arena
    /\ NewSession(FALSE)
    /\ spare = [i \in Arenas |-> prefilled_spare(arena[i])]
    /\ manual = 0

Flush ==
    /\ \E i \in Arenas : DoFlush(i)
    /\ before' = arena
    /\ UNCHANGED pipeline

Migrate ==
    /\ \E i \in Arenas : DoMigrate(i, Other(i))
    /\ before' = arena
    /\ UNCHANGED pipeline

Clear ==
    /\ \E i \in Arenas : DoClear(i)
    /\ before' = arena
    /\ UNCHANGED pipeline

Next == Flush \/ Migrate \/ Clear

Spec == Init /\ [][Next]_vars

\* ------------------------------------------------------- parse and dump
\* One Writer, created with either skip_header, dumps what the caller
\* parses: each time a new Reader, in either header mode, fills the emptied
\* arena with one input, and the Writer dumps the arena, any number of times.

DumpBytes == {"a", DELIM, LF, QUOTE}

InitDump ==
    /\ first_row_is_header = FALSE
    /\ reader = new_reader(first_row_is_header)
    /\ arena = [i \in Arenas |-> new_arena]
    /\ res = Outcome("Ok")
    /\ last = Call("new", 0, 0, <<0, 0>>)
    /\ cur = 1
    /\ stream = <<>>
    /\ got = <<>>
    /\ before = arena
    /\ \E skip_header \in BOOLEAN : NewSession(skip_header)
    /\ spare = NoSpare
    /\ manual = 0

\* Reader::new(h), ByteRecordArena::new(), reader.fill_arena(input, &mut arena)
ParseTo(h, input, f) ==
    /\ first_row_is_header' = h
    /\ reader' = f.reader
    /\ arena' = [arena EXCEPT ![cur] = f.arena]
    /\ res' = f.res
    /\ stream' = input
    /\ last' = Call("fill_arena", cur, 0, <<0, 0>>)
    /\ spare' = [spare EXCEPT ![cur] = fill_spare(new_arena, <<>>, input, f.arena)]
    /\ UNCHANGED <<cur, got, before, session, manual>>

Parse ==
    /\ dumped.calls < MaxDumps
    /\ \E h \in BOOLEAN, input \in SeqsOf(DumpBytes, 0, MaxDumpInput) :
          ParseTo(h, input, fill_arena(new_reader(h), new_arena, input))

Dump ==
    /\ dumped.calls < MaxDumps
    /\ DoDump(cur)
    /\ UNCHANGED <<pipeline, before>>

NextDump == Parse \/ Dump

SpecDump == InitDump /\ [][NextDump]_vars

\* ------------------------------------------------------------ properties

\* p is a prefix of s, and p is a suffix of s.
IsPrefix(p, s) ==
    /\ Len(p) <= Len(s)
    /\ \A i \in 1..Len(p) : p[i] = s[i]
IsSuffix(p, s) ==
    /\ Len(p) <= Len(s)
    /\ \A i \in 1..Len(p) : p[i] = s[Len(s) - Len(p) + i]

\* The rows of a byte string, read off the automaton alone, without buffers,
\* offsets or arenas: a byte the automaton copies joins the current field, a
\* state that ends a field closes the field, one that ends a record closes the
\* row.  A row not yet terminated is not a row.
RECURSIVE RowsFrom(_, _, _, _, _)
RowsFrom(input, state, field, row, rows) ==
    IF Len(input) = 0 THEN rows
    ELSE LET c == Head(input)
             t == Transition(state, c)
             field2 == IF t.out THEN Append(field, c) ELSE field
         IN  IF IsFinalRecord(t.state)
             THEN RowsFrom(Tail(input), t.state, <<>>, <<>>,
                           Append(rows, Append(row, field2)))
             ELSE IF IsFinalField(t.state)
             THEN RowsFrom(Tail(input), t.state, <<>>, Append(row, field2), rows)
             ELSE RowsFrom(Tail(input), t.state, field2, row, rows)

Rows(input) == RowsFrom(input, "StartRecord", <<>>, <<>>, <<>>)

\* The bytes of the stream the Reader has consumed, and their rows.
Consumed == SubSeq(stream, 1, reader.bytes_read)
ConsumedRows == Rows(Consumed)

\* The data rows among them: all but the header row in header mode.
DataRows ==
    IF first_row_is_header /\ Len(ConsumedRows) > 0
    THEN Tail(ConsumedRows) ELSE ConsumedRows

\* The completed records of the run over all arenas, in order: those taken
\* out before a rotation, then those of the current arena.
Total == got \o iter(arena[cur])

\* The whole stream filled into one empty arena by one call.
SingleFill == fill_arena(new_reader(first_row_is_header), new_arena, stream)

\* C1: chunk-boundary invariance: the stream fed chunk by chunk, with
\* migrate_partial into the next arena between each pair of chunks, yields
\* over all arenas the same sequence of completed records as a single fill
\* of the whole stream into one arena.
ChunkBoundaryInvariance == Total = iter(SingleFill.arena)

\* C2: header exclusion: in header mode the records of the arenas are the
\* rows of the stream after the first one (no arena counts the header row),
\* and the arena in which the header row was completed, and no other, has
\* headers: exactly the fields of the stream's first row.
HeaderExclusion ==
    (first_row_is_header /\ Running) =>
        /\ Total = DataRows
        /\ record_count(arena[cur]) = Len(DataRows) - Len(got)
        /\ IsSuffix(iter(arena[Other(cur)]), got)
        /\ \A i \in Arenas :
              headers(arena[i]) # None =>
                  /\ Len(ConsumedRows) > 0
                  /\ header_fields(Unwrap(headers(arena[i]))) = ConsumedRows[1]
        /\ Len(ConsumedRows) > 0 => \E i \in Arenas : headers(arena[i]) # None

\* The header row was split across two chunks and completed in the second
\* arena, and a data row has followed it.
HeaderExclusionWitness ==
    /\ first_row_is_header
    /\ res.kind = "Ok"
    /\ headers(arena[1]) = None
    /\ headers(arena[2]) # None
    /\ Len(Unwrap(headers(arena[2])).name_data) > 0
    /\ Unwrap(arena[2].start_pos).byte > 0
    /\ cur = 2
    /\ record_count(arena[2]) > 0

\* C3: column-count enforcement with a header: in header mode, as long as
\* every fill_arena has returned Ok(()), every data row consumed has as many
\* fields as the header row, whichever arena received it.
HeaderColumnCountEnforced ==
    (first_row_is_header /\ res.kind = "Ok") =>
        \A i \in 1..Len(DataRows) : Len(DataRows[i]) = Len(ConsumedRows[1])

\* C4: column-count baseline without a header: without header mode and with
\* arenas that hold no headers, as long as every fill_arena has returned
\* Ok(()), every row consumed has as many fields as the first row, also a
\* row completed in a later call than the first.
FirstRecordBaseline ==
    (/\ ~first_row_is_header
     /\ \A i \in Arenas : headers(arena[i]) = None
     /\ res.kind = "Ok") =>
        \A i \in 1..Len(DataRows) : Len(DataRows[i]) = Len(DataRows[1])

\* The expected column count of the run: the header's field count when the
\* arenas hold headers or the Reader is in header mode, else the first data
\* row's.
Baseline ==
    IF first_row_is_header THEN Len(ConsumedRows[1])
    ELSE IF headers(arena[cur]) # None
    THEN Len(Unwrap(headers(arena[cur])).name_ends)
    ELSE Len(DataRows[1])

\* C5: a WrongColCount carries the 0-based number of the offending row among
\* the data rows of the input (the last row consumed), that row's field count
\* and the baseline, whatever flush or migrate_partial removed before.
WrongColCountFields ==
    res.kind = "WrongColCount" =>
        /\ res.row_num = Len(DataRows) - 1
        /\ res.col_count = Len(DataRows[Len(DataRows)])
        /\ res.expected_col_count = Baseline

\* C6: when fill_arena returns WrongColCount, the records the arena held
\* before the call, and those it would hold had the chunk ended just before
\* the byte that completes the offending record, are still there, in order
\* and unchanged, and the headers are those of that shorter chunk.
ErrorKeepsAccepted ==
    [][(last'.op = "fill_arena" /\ res'.kind = "WrongColCount") =>
          LET chunk == SubSeq(stream', Len(stream) + 1, Len(stream'))
              n == reader'.bytes_read - reader.bytes_read
              accepted == fill_arena(reader, arena[cur], SubSeq(chunk, 1, n - 1))
          IN  /\ n >= 1
              /\ accepted.res.kind = "Ok"
              /\ IsPrefix(iter(arena[cur]), iter(arena'[cur]))
              /\ IsPrefix(iter(accepted.arena), iter(arena'[cur]))
              /\ Len(iter(arena'[cur])) <= Len(iter(accepted.arena)) + 1
              /\ headers(arena'[cur]) = headers(accepted.arena)]_vars

\* A fill_arena has just returned WrongColCount on an arena with headers
\* that holds a record accepted before the offending one.
ErrorKeepsAcceptedWitness ==
    /\ res.kind = "WrongColCount"
    /\ last.op = "fill_arena"
    /\ headers(arena[cur]) # None
    /\ record_count(arena[cur]) >= 2

\* The buffers of the arenas of the latest call, before and after it.
SelfBefore == before[last.self].inner
SelfAfter == arena[last.self].inner
OtherBefore == before[last.other].inner
OtherAfter == arena[last.other].inner

\* C7: migration purity: after migrate_partial, for the data array and for
\* the ends array, what the source held before the call is what it holds now
\* followed by what the destination holds now, and the returned pair is the
\* destination's data length and field-end count.
MigrationPurity ==
    last.op = "migrate_partial" =>
        /\ SelfBefore.field_data = SelfAfter.field_data \o OtherAfter.field_data
        /\ SelfBefore.field_ends = SelfAfter.field_ends \o OtherAfter.field_ends
        /\ last.ret = <<Len(OtherAfter.field_data), Len(OtherAfter.field_ends)>>

\* A migration from an arena that held a completed record and a partial
\* record with bytes.
MigrationPurityWitness ==
    /\ last.op = "migrate_partial"
    /\ Len(SelfBefore.record_ends) > 0
    /\ Len(SelfAfter.field_data) > 0
    /\ last.ret[1] > 0

\* C8: after a.migrate_partial(b), b has no completed record and holds only
\* a's former partial record, whatever it held before; a has the completed
\* records it had, unchanged, and is no longer partial.
MigrateReplacesOther ==
    last.op = "migrate_partial" =>
        LET e == last_record_end(SelfBefore)
        IN  /\ record_count(arena[last.other]) = 0
            /\ OtherAfter.field_data = SliceFrom(SelfBefore.field_data, e[1])
            /\ OtherAfter.field_ends = SliceFrom(SelfBefore.field_ends, e[2])
            /\ record_count(arena[last.self]) = record_count(before[last.self])
            /\ iter(arena[last.self]) = iter(before[last.self])
            /\ ~is_partial(arena[last.self])

\* A migration from an arena with a completed record and a partial record
\* into an arena that held a completed record and a partial record.
MigrateReplacesOtherWitness ==
    /\ last.op = "migrate_partial"
    /\ record_count(before[last.self]) > 0
    /\ is_partial(before[last.self])
    /\ record_count(before[last.other]) > 0
    /\ is_partial(before[last.other])

\* C9: after flush the arena has no completed record, its buffers are
\* exactly the former partial record's bytes and field ends, in order, and
\* the returned pair is their lengths; without a partial record the pair is
\* (0, 0) and the buffers are empty.
FlushKeepsPartial ==
    last.op = "flush" =>
        LET e == last_record_end(SelfBefore)
        IN  /\ record_count(arena[last.self]) = 0
            /\ SelfAfter.field_data = SliceFrom(SelfBefore.field_data, e[1])
            /\ SelfAfter.field_ends = SliceFrom(SelfBefore.field_ends, e[2])
            /\ last.ret = <<Len(SelfAfter.field_data), Len(SelfAfter.field_ends)>>
            /\ ~is_partial(before[last.self]) =>
                  /\ last.ret = <<0, 0>>
                  /\ SelfAfter.field_data = <<>>
                  /\ SelfAfter.field_ends = <<>>

\* A flush of an arena that held a completed record with bytes and a partial
\* record.
FlushKeepsPartialWitness ==
    /\ last.op = "flush"
    /\ record_count(before[last.self]) > 0
    /\ last_record_end(SelfBefore)[1] > 0
    /\ last.ret # <<0, 0>>

\* C10 as stated: start_pos is unset in the arena that was flushed, in the
\* source of a migrate_partial, and in the arena that was cleared.
StartPosClearedInSource ==
    [][(last'.op \in {"flush", "migrate_partial", "clear"}) =>
          arena'[last'.self].start_pos = None]_vars

\* C10: start_pos is unset in the arena that was flushed, in the destination
\* of a migrate_partial and in the arena that was cleared, and the next
\* fill_arena with a non-empty input stamps it; the source of a
\* migrate_partial keeps its start_pos.
StartPosCleared ==
    [][/\ (last'.op \in {"flush", "clear"}) =>
              arena'[last'.self].start_pos = None
       /\ (last'.op = "migrate_partial") =>
              /\ arena'[last'.other].start_pos = None
              /\ arena'[last'.self].start_pos = arena[last'.self].start_pos
       /\ (last'.op = "fill_arena" /\ stream' # stream) =>
              arena'[last'.self].start_pos =
                  IF arena[last'.self].start_pos = None
                  THEN Stamp(reader) ELSE arena[last'.self].start_pos]_vars

\* The destination of a migration whose source keeps the position of the
\* start of the stream has been stamped anew by the fill_arena that followed.
StartPosClearedWitness ==
    /\ last.op = "fill_arena"
    /\ arena[Other(cur)].start_pos # None
    /\ Unwrap(arena[Other(cur)].start_pos).byte = 0
    /\ arena[cur].start_pos # None
    /\ Unwrap(arena[cur].start_pos).byte > 0

\* C11: migrate_partial relocates the source's headers with its partial
\* record: after a.migrate_partial(b), where a held headers, b.headers()
\* returns those headers.
MigrationMovesHeaders ==
    (last.op = "migrate_partial" /\ headers(before[last.self]) # None) =>
        headers(arena[last.other]) = headers(before[last.self])

\* ------------------------------------- arenas on their own, with completion
\* The same two arenas, where the caller may also end the partial record
\* with complete_partial.

Complete ==
    /\ \E i \in Arenas :
          /\ record_count(arena[i]) <= MaxCompleted
          /\ DoComplete(i)
    /\ before' = arena
    /\ UNCHANGED pipeline

NextComplete == Flush \/ Migrate \/ Clear \/ Complete

SpecComplete == Init /\ [][NextComplete]_vars

\* The partial record of the arena of the latest call, before the call: its
\* bytes, its field ends, and its fields once ended: the terminated fields,
\* then the pending bytes (if any) as the last field.
PartialDataBefore ==
    SliceFrom(SelfBefore.field_data, last_record_end(SelfBefore)[1])
PartialEndsBefore ==
    SliceFrom(SelfBefore.field_ends, last_record_end(SelfBefore)[2])
CompletedEnds ==
    IF LastOr(PartialEndsBefore, 0) < Len(PartialDataBefore)
    THEN Append(PartialEndsBefore, Len(PartialDataBefore))
    ELSE PartialEndsBefore

\* C12: complete_partial turns the partial record into one more completed
\* record: the arena is no longer partial, and the new record's field ends
\* are the partial record's field ends followed by the end of the pending
\* bytes (if any), all within the record's data, so that its fields are the
\* terminated fields followed by the pending bytes, also when the arena
\* already holds completed records.
CompletePartialRecord ==
    last.op = "complete_partial" =>
        /\ record_count(arena[last.self]) = record_count(before[last.self]) + 1
        /\ ~is_partial(arena[last.self])
        /\ SelfAfter.field_data = SelfBefore.field_data
        /\ SliceFrom(SelfAfter.field_ends, last_record_end(SelfBefore)[2])
               = CompletedEnds
        /\ iter(arena[last.self])
               = Append(iter(before[last.self]),
                        record_fields(PartialDataBefore, CompletedEnds))

\* C13: fill_arena with an empty chunk is a no-op: it returns Ok(()) and
\* leaves the arenas (records, partial record, headers, start_pos) and the
\* Reader (counters, pending-header flag, tokenizer) as they were, so that
\* the next chunk continues the partial record.
EmptyFillNoOp ==
    [][(last'.op = "fill_arena" /\ stream' = stream) =>
          /\ arena' = arena
          /\ reader' = reader
          /\ res' = Outcome("Ok")]_vars

\* The latest call was a fill_arena with an empty chunk (a non-empty one
\* would have stamped start_pos) on an arena that holds a partial record and
\* was flushed before, with the tokenizer inside the record.
EmptyFillNoOpWitness ==
    /\ last.op = "fill_arena"
    /\ res.kind = "Ok"
    /\ arena[cur].start_pos = None
    /\ is_partial(arena[cur])
    /\ reader.inner.state \in {"InField", "InQuotedField"}
    /\ reader.bytes_read > 0

\* C14  Encoder sizing: the bytes a dump writes (the header row when it is
\* due, and every completed record, quoted where needed) fit the length
\* 2 + 2 * field bytes + field count + record count the buffer is given, so
\* no encoder call meets a full buffer.
EncoderNeverFull ==
    last.op = "dump_arena" => ~dumped.full

\* The rows a dump is to write: the header row when it is due, then the
\* completed records of the arena in order.
DueRows ==
    (IF dumped.header_due
     THEN <<header_fields(Unwrap(headers(arena[last.self])))>> ELSE <<>>)
    \o iter(arena[last.self])

\* C15  Over the dump calls of one Writer the header row is written at most
\* once, by the first dump of an arena with headers unless the Writer was
\* created with skip_header, ahead of the records; and every dump writes
\* the completed records of its arena in order, and nothing of the partial
\* record: the bytes a dump leaves are rows, and they are these.
DumpWritesDueRows ==
    last.op = "dump_arena" => Rows(out_buffer) = DueRows

\* C16  After any dump calls the Writer's bytes_written is the number of
\* bytes those calls left in their output buffers, and records_written the
\* number of completed records of the arenas they were given.
WriterCounters ==
    /\ writer.bytes_written = dumped.bytes
    /\ writer.records_written = dumped.records

\* The arena a new Reader of the same header mode parses out of the bytes of
\* the latest dump.
Reparsed == fill_arena(new_reader(first_row_is_header), new_arena, out_buffer).arena

\* C17  Round trip: the dump of an arena by a new Writer, parsed by a new
\* Reader of the same header mode into a new arena, gives the same headers
\* and the same completed records, field for field.
RoundTrip ==
    (last.op = "dump_arena" /\ dumped.calls = 1 /\ ~dumped.skip_header) =>
        /\ headers(Reparsed) = headers(arena[last.self])
        /\ iter(Reparsed) = iter(arena[last.self])

ReaderCounters ==
    [][/\ reader'.bytes_read >= reader.bytes_read
       /\ reader'.records_read >= reader.records_read
       /\ (last'.op = "fill_arena") =>
             /\ reader'.bytes_read - reader.bytes_read <= Len(stream') - Len(stream)
             /\ res'.kind = "WrongColCount" =>
                   /\ reader'.bytes_read > reader.bytes_read
                   /\ IsTerm(stream'[reader'.bytes_read])
             /\ reader'.records_read = Len(DataRows')
             /\ reader'.records_read - reader.records_read =
                   record_count(arena'[cur]) - record_count(arena[cur])
             /\ reader'.records_read - reader.records_read =
                   Len(iter(arena'[cur])) - Len(iter(arena[cur]))
             /\ res'.kind = "Ok" => reader'.bytes_read = Len(stream')
       /\ (last'.op # "fill_arena") =>
             /\ reader'.bytes_read = reader.bytes_read
             /\ reader'.records_read = reader.records_read]_vars

\* A fill_arena that returned an error in the middle of its chunk, after a
\* record had been counted.
ReaderCountersWitness ==
    /\ last.op = "fill_arena"
    /\ res.kind = "WrongColCount"
    /\ reader.bytes_read < Len(stream)
    /\ reader.records_read > 0

\* C20  No sequence of Reader::new in either header mode, of
\* ByteRecordArena::new or with_headers, and of fill_arena, flush,
\* migrate_partial, clear and complete_partial makes the assertion of
\* fill_arena fail that the arena holds no headers when the header row is
\* scraped.
ScrapeAssertionHolds ==
    ~(last.op = "fill_arena" /\ res.kind = "Panic")

\* C29  complete_partial on an arena without a partial record, an empty
\* arena among them, adds no record: record_count and the arena are as
\* before.
CompleteWithoutPartial ==
    (last.op = "complete_partial" /\ ~is_partial(before[last.self])) =>
        /\ record_count(arena[last.self]) = record_count(before[last.self])
        /\ arena[last.self] = before[last.self]

\* C28  When fill_arena returns WrongColCount the offending record is not
\* added to the arena: record_count and iter are those of the records
\* accepted before the mismatch, and the Reader's record counter does not
\* count it.
OffendingRecordDropped ==
    [][(last'.op = "fill_arena" /\ res'.kind = "WrongColCount") =>
          /\ record_count(arena'[cur]) = res'.row_num
          /\ Len(iter(arena'[cur])) = res'.row_num
          /\ reader'.records_read - reader.records_read =
                res'.row_num - record_count(arena[cur])]_vars

\* A raw arena whose completed records and partial record can be iterated:
\* the record ends do not decrease and lie within the buffers, the field
\* ends of every completed record do not decrease and end at the length of
\* its data, and the field ends of the partial record do not decrease and
\* lie within the partial data.
RecordStart(a, i) == IF i = 1 THEN <<0, 0>> ELSE a.record_ends[i - 1]

WellFormedRecord(a, i) ==
    /\ RecordStart(a, i)[1] <= a.record_ends[i][1]
    /\ RecordStart(a, i)[2] <= a.record_ends[i][2]
    /\ a.record_ends[i][1] <= Len(a.field_data)
    /\ a.record_ends[i][2] <= Len(a.field_ends)
    /\ \A k \in (RecordStart(a, i)[2] + 1)..a.record_ends[i][2] :
          /\ k <= Len(a.field_ends)
          /\ a.field_ends[k] <= a.record_ends[i][1] - RecordStart(a, i)[1]
          /\ k > RecordStart(a, i)[2] + 1 => a.field_ends[k - 1] <= a.field_ends[k]
          /\ k = a.record_ends[i][2] =>
                a.field_ends[k] = a.record_ends[i][1] - RecordStart(a, i)[1]

WellFormedPartial(a) ==
    /\ last_record_end(a)[1] <= Len(a.field_data)
    /\ last_record_end(a)[2] <= Len(a.field_ends)
    /\ \A k \in (last_record_end(a)[2] + 1)..Len(a.field_ends) :
          /\ a.field_ends[k] <= Len(a.field_data) - last_record_end(a)[1]
          /\ k > last_record_end(a)[2] + 1 => a.field_ends[k - 1] <= a.field_ends[k]

WellFormed(a) ==
    /\ \A i \in 1..Len(a.record_ends) : WellFormedRecord(a, i)
    /\ WellFormedPartial(a)

\* C26  Under the streaming protocol (fill_arena calls of one Reader, with
\* flush and migrate_partial between them, every fill_arena going to the
\* arena that holds the partial record) both arenas are well formed in
\* every state.
StreamingWellFormed ==
    Running => \A i \in Arenas : WellFormed(arena[i].inner)

\* After a migration the second arena holds a completed record of two
\* fields and a partial record.
StreamingWellFormedWitness ==
    /\ cur = 2
    /\ Running
    /\ record_count(arena[2]) >= 1
    /\ Len(iter(arena[2])[1]) >= 2
    /\ is_partial(arena[2])

\* The rows an arena holds: the header row, when it has headers, and its
\* completed records.
ArenaRows(a) ==
    (IF headers(a) = None THEN <<>> ELSE <<header_fields(Unwrap(headers(a)))>>)
    \o iter(a)

\* C24  Every fill_arena of a chunk returns: a retry after a full data or
\* ends buffer doubles a buffer that is not empty and goes on with the rest
\* of the chunk, and what the call had decoded before the retry is kept, so
\* the arena holds the rows of the chunk, all of them when the call
\* returns Ok(()).
FillTerminates ==
    last.op = "fill_arena" =>
        /\ res.kind \in {"Ok", "WrongColCount"}
        /\ IsPrefix(ArenaRows(arena[cur]), Rows(stream))
        /\ res.kind = "Ok" => ArenaRows(arena[cur]) = Rows(stream)

\* A fill_arena of one chunk of fewer than 8 bytes, for which the ends
\* buffer starts with one slot, left three field ends: the buffer was
\* doubled twice.
FillTerminatesWitness ==
    /\ last.op = "fill_arena"
    /\ res.kind = "Ok"
    /\ Len(stream) < 8
    /\ headers(arena[cur]) = None
    /\ Len(arena[cur].inner.field_ends) >= 3

\* C27  After clear on an arena with a partial record, further fill_arena
\* calls of the same Reader on that arena give well-formed completed
\* records only: the record that was in progress at the clear gets no field
\* end beyond the data stored for it.
ClearedRecordsWellFormed ==
    (Running /\ last.op = "fill_arena") =>
        \A i \in 1..record_count(arena[cur]) : WellFormedRecord(arena[cur].inner, i)

\* C21: when terminate_field(k) directly follows an expose_data and k is at
\* most the length of the slice that expose_data returned, the capacity
\* assertion new_data_len <= bytes_init of terminate_field does not fail.
CapacityAssertionHolds ==
    ~(/\ last.op = "terminate_field"
      /\ res.kind = "AssertionFailed")

\* C22: after a terminate_field(k) that passed the capacity assertion,
\* whether or not expose_data was called since the previous terminate_field,
\* the arena's data ends where the new field ends: its length is the end of
\* the last completed record plus the new field end, so the new field end
\* does not exceed the data length of its record.
TerminateFieldCommits ==
    (last.op = "terminate_field" /\ Running) =>
        /\ Len(arena[last.self].inner.field_data)
             = last_record_end(arena[last.self].inner)[1]
                 + partial_last_field_end(arena[last.self].inner)
        /\ WellFormedPartial(arena[last.self].inner)

\* C23: reserve_space(n) leaves the arena's records and partial data as
\* they were, for every n, and the expose_data that follows it returns a
\* slice of at least n bytes that holds zeros (past what the caller has
\* written at its start).
ReserveKeeps ==
    (manual' # manual /\ last'.op = "reserve_space") =>
        arena'[last'.self].inner = arena[last'.self].inner

ExposedAfterReserve ==
    (manual' # manual /\ last.op = "reserve_space" /\ last'.op = "expose_data") =>
        /\ last'.ret[1] >= last.ret[1]
        /\ \A k \in 1..Len(arena'[cur].inner.field_data) :
               k > Len(arena[cur].inner.field_data) + last'.ret[2]
                   => arena'[cur].inner.field_data[k] = NUL

ReserveSpaceFrame == [][ReserveKeeps /\ ExposedAfterReserve]_vars

\* The record terminators in the output of dump_arena: the line feeds that
\* are not inside a quoted field.
RECURSIVE TerminatorsFrom(_, _, _)
TerminatorsFrom(out, i, quoted) ==
    IF i > Len(out) THEN 0
    ELSE IF out[i] = QUOTE THEN TerminatorsFrom(out, i + 1, ~quoted)
    ELSE (IF out[i] = LF /\ ~quoted THEN 1 ELSE 0)
             + TerminatorsFrom(out, i + 1, quoted)

Terminators(out) == TerminatorsFrom(out, 1, FALSE)

\* C25: dump_arena writes one record terminator for each completed record
\* of the arena, a record without fields included, and the index of the
\* last field, field_count() - 1, does not underflow.
DumpTerminatesRecords ==
    last.op = "dump_arena" =>
        /\ res.kind # "Overflow"
        /\ Terminators(out_buffer)
             = record_count(arena[last.self]) + (IF dumped.header_due THEN 1 ELSE 0)


====
